---- MODULE Spec2Model ----
(***************************************************************************)
(* Model of korean-quiz/src/speech_gen.py: the batch generator of speech   *)
(* audio files.  Three parts of the script are modelled:                   *)
(*   - the module-level merge of the category lists into all_items,        *)
(*   - the coroutine generate_audio(text, force),                          *)
(*   - the coroutine main(), run once per invocation of the script.        *)
(* The Korean literals are replaced by romanised stand-ins, because the    *)
(* module is written in ASCII; "i" stands for a text that is both a        *)
(* syllable example and a number.                                          *)
(***************************************************************************)
EXTENDS Integers, Sequences, FiniteSets, TLC

VARIABLES
    item_lists,     \* the category lists, in the order of the merge
    all_items,      \* the registry
    seen,           \* the texts already merged
    li, ii,         \* position of the merge: list index, item index
    pc,             \* "build", "loaded", "main", "done", "crashed", "caller", "returned"
    dir,            \* the paths present on disk
    dir0,           \* the paths present when the current run started
    force,          \* args.force
    i,              \* index of the item the loop of main() is at
    generated, skipped, errors,
    ga,             \* generate_audio: "idle" or "awaiting" communicate.save
    ga_text, ga_force,  \* the arguments of the call of generate_audio
    ret,            \* the value generate_audio returned last
    calls,          \* the texts handed to edge_tts.Communicate, in order
    inflight,       \* the texts whose save() has not completed yet
    out,            \* the status lines printed, <<status, text>> each
    summary,        \* <<>> or <<generated, skipped, errors, actual_files>>
    run,            \* number of the current invocation of the script
    prevClean       \* the previous invocation ended with errors = 0

vars == <<item_lists, all_items, seen, li, ii, pc, dir, dir0, force, i,
          generated, skipped, errors, ga, ga_text, ga_force, ret, calls,
          inflight, out, summary, run, prevClean>>

buildVars == <<item_lists, all_items, seen, li, ii>>
mainVars == <<dir0, force, i, generated, skipped, errors, summary, run, prevClean>>
gaVars == <<dir, ga, ga_text, ga_force, ret, calls, inflight, out>>

\* ---------------------------------------------------------------- bounds
NumLists == 2       \* number of category lists merged
MaxListLen == 2     \* length of a category list
MaxRuns == 2        \* invocations of the script in a row

\* ------------------------------------------------------------- constants
OUTPUT_DIR == "korean_audio_assets"
VOICE == "ko-KR-SunHiNeural"

Texts == {"ga", "i", "sam"}

\* ------------------------------------------------------------ file names
\* variant: the text is left out of the file name
OutputPath_Fixed(text) == OUTPUT_DIR \o "/" \o "audio" \o ".mp3"

OutputPath(text) == OUTPUT_DIR \o "/" \o text \o ".mp3"

\* variant: the existence check looks for the name without its extension
file_exists_NoExtension(text) == (OUTPUT_DIR \o "/" \o text) \in dir

file_exists(text) == OutputPath(text) \in dir

EndsWith(s, suffix) ==
    /\ Len(s) >= Len(suffix)
    /\ SubSeq(s, Len(s) - Len(suffix) + 1, Len(s)) = suffix

\* Path(OUTPUT_DIR).glob('*.mp3')
GlobMp3(d) == {f \in d : EndsWith(f, ".mp3")}

\* files the directory may hold besides the audio of the texts
OtherFiles == {OUTPUT_DIR \o "/old.mp3", OUTPUT_DIR \o "/notes.txt"}
AllFiles == {OutputPath(t) : t \in Texts} \cup OtherFiles

\* ------------------------------------------------------ registry (merge)
RECURSIVE SeqsUpTo(_)
SeqsUpTo(n) ==
    IF n = 0 THEN {<<>>}
    ELSE LET shorter == SeqsUpTo(n - 1)
         IN shorter \cup {Append(s, t) : s \in {q \in shorter : Len(q) = n - 1}, t \in Texts}

CategoryLists == SeqsUpTo(MaxListLen)
ListChoices == [1..NumLists -> CategoryLists]

InitBuildVars ==
    /\ item_lists \in ListChoices
    /\ all_items = <<>>
    /\ seen = {}
    /\ li = 1
    /\ ii = 1

\* variant: the appended item is not recorded in seen
BuildAppend_NoSeenAdd ==
    /\ pc = "build"
    /\ li <= Len(item_lists)
    /\ ii <= Len(item_lists[li])
    /\ item_lists[li][ii] \notin seen
    /\ all_items' = Append(all_items, item_lists[li][ii])
    /\ ii' = ii + 1
    /\ UNCHANGED <<item_lists, seen, li, pc>>
    /\ UNCHANGED <<mainVars, gaVars>>

\* for item in item_list: if item not in seen: append, add
BuildAppend ==
    /\ pc = "build"
    /\ li <= Len(item_lists)
    /\ ii <= Len(item_lists[li])
    /\ item_lists[li][ii] \notin seen
    /\ all_items' = Append(all_items, item_lists[li][ii])
    /\ seen' = seen \cup {item_lists[li][ii]}
    /\ ii' = ii + 1
    /\ UNCHANGED <<item_lists, li, pc>>
    /\ UNCHANGED <<mainVars, gaVars>>

BuildDuplicate ==
    /\ pc = "build"
    /\ li <= Len(item_lists)
    /\ ii <= Len(item_lists[li])
    /\ item_lists[li][ii] \in seen
    /\ ii' = ii + 1
    /\ UNCHANGED <<item_lists, all_items, seen, li, pc>>
    /\ UNCHANGED <<mainVars, gaVars>>

\* the inner loop is exhausted: next category list
BuildNextList ==
    /\ pc = "build"
    /\ li <= Len(item_lists)
    /\ ii > Len(item_lists[li])
    /\ li' = li + 1
    /\ ii' = 1
    /\ UNCHANGED <<item_lists, all_items, seen, pc>>
    /\ UNCHANGED <<mainVars, gaVars>>

BuildDone ==
    /\ pc = "build"
    /\ li > Len(item_lists)
    /\ pc' = "loaded"
    /\ UNCHANGED buildVars
    /\ UNCHANGED <<mainVars, gaVars>>

\* the merge as a function of the lists: what the loop computes
RECURSIVE MergeFrom(_, _, _, _)
MergeFrom(ls, l, k, acc) ==
    IF l > Len(ls) THEN acc
    ELSE IF k > Len(ls[l]) THEN MergeFrom(ls, l + 1, 1, acc)
    ELSE IF \E n \in 1..Len(acc) : acc[n] = ls[l][k]
         THEN MergeFrom(ls, l, k + 1, acc)
         ELSE MergeFrom(ls, l, k + 1, Append(acc, ls[l][k]))

Merge(ls) == MergeFrom(ls, 1, 1, <<>>)

Registries == {Merge(ls) : ls \in ListChoices}

\* one tuple of category lists per registry; main() reads the lists through
\* all_items only
ListsOf(r) == CHOOSE ls \in ListChoices : Merge(ls) = r

Range(s) == {s[n] : n \in 1..Len(s)}

\* the state of the merge once the module is loaded
LoadedBuildVars ==
    /\ all_items \in Registries
    /\ item_lists = ListsOf(all_items)
    /\ seen = Range(all_items)
    /\ li = Len(item_lists) + 1
    /\ ii = 1

\* -------------------------------------------------------- generate_audio
ReturnSkipped == TRUE
ReturnGenerated == TRUE
ReturnFailed == FALSE

InitGaVars ==
    /\ ga = "idle"
    /\ ga_text = ""
    /\ ga_force = FALSE
    /\ ret = FALSE
    /\ calls = <<>>
    /\ inflight = {}
    /\ out = <<>>

\* generate_audio(text, force) up to its first suspension or return
generate_audio(text, f) ==
    /\ ga = "idle"
    /\ ga_text' = text
    /\ ga_force' = f
    /\ IF file_exists(text) /\ ~f
       THEN /\ out' = Append(out, <<"Skipping", text>>)
            /\ ret' = ReturnSkipped
            /\ ga' = "idle"
            /\ UNCHANGED <<calls, inflight, dir>>
       ELSE /\ calls' = Append(calls, text)
            /\ inflight' = inflight \cup {text}
            /\ ga' = "awaiting"
            /\ UNCHANGED <<out, ret, dir>>

\* communicate.save(output_path) completes: the file is written
save_returns ==
    /\ ga = "awaiting"
    /\ dir' = dir \cup {OutputPath(ga_text)}
    /\ inflight' = inflight \ {ga_text}
    /\ out' = Append(out, <<IF OutputPath(ga_text) \in dir' /\ ga_force
                            THEN "Regenerated" ELSE "Generated", ga_text>>)
    /\ ret' = ReturnGenerated
    /\ ga' = "idle"
    /\ UNCHANGED <<ga_text, ga_force, calls>>

\* variant: the handler removes the file of the failed synthesis
save_raises_RemovesPartial ==
    /\ ga = "awaiting"
    /\ dir' = dir \ {OutputPath(ga_text)}
    /\ inflight' = inflight \ {ga_text}
    /\ out' = Append(out, <<"Error", ga_text>>)
    /\ ret' = ReturnFailed
    /\ ga' = "idle"
    /\ UNCHANGED <<ga_text, ga_force, calls>>

\* Communicate(...) or save(...) raises: caught by except Exception.  save()
\* opens the output file before it streams, so the file may have been
\* created or truncated; nothing removes it.
save_raises ==
    /\ ga = "awaiting"
    /\ dir' \in {dir, dir \cup {OutputPath(ga_text)}}
    /\ inflight' = inflight \ {ga_text}
    /\ out' = Append(out, <<"Error", ga_text>>)
    /\ ret' = ReturnFailed
    /\ ga' = "idle"
    /\ UNCHANGED <<ga_text, ga_force, calls>>

\* ------------------------------------------------------------------ main
total_files == Len(all_items)

\* variant: a failed item is counted as generated
Tally_ErrorsAsGenerated(r) ==
    /\ generated' = generated + 1
    /\ UNCHANGED <<skipped, errors>>

\* if await generate_audio(...): generated += 1 else: errors += 1
Tally(r) ==
    /\ generated' = (IF r THEN generated + 1 ELSE generated)
    /\ errors' = (IF r THEN errors ELSE errors + 1)
    /\ UNCHANGED skipped

InitMainVars ==
    /\ dir0 = dir
    /\ force \in BOOLEAN
    /\ i = 1
    /\ generated = 0
    /\ skipped = 0
    /\ errors = 0
    /\ summary = <<>>
    /\ run = 1
    /\ prevClean = FALSE

\* variant: the skip branch does not look at args.force
MainSkip_IgnoresForce ==
    /\ pc = "main"
    /\ ga = "idle"
    /\ i <= total_files
    /\ file_exists(all_items[i])
    /\ out' = Append(out, <<"Skipping", all_items[i]>>)
    /\ skipped' = skipped + 1
    /\ i' = i + 1
    /\ UNCHANGED <<generated, errors>>
    /\ UNCHANGED <<dir, ga, ga_text, ga_force, ret, calls, inflight>>
    /\ UNCHANGED <<dir0, force, summary, run, prevClean, pc>>
    /\ UNCHANGED buildVars

\* variant: the skip branch does not count the item
MainSkip_NoCount ==
    /\ pc = "main"
    /\ ga = "idle"
    /\ i <= total_files
    /\ file_exists(all_items[i]) /\ ~force
    /\ out' = Append(out, <<"Skipping", all_items[i]>>)
    /\ i' = i + 1
    /\ UNCHANGED <<generated, skipped, errors>>
    /\ UNCHANGED <<dir, ga, ga_text, ga_force, ret, calls, inflight>>
    /\ UNCHANGED <<dir0, force, summary, run, prevClean, pc>>
    /\ UNCHANGED buildVars

\* loop body, branch "file_exists(text) and not args.force"
MainSkip ==
    /\ pc = "main"
    /\ ga = "idle"
    /\ i <= total_files
    /\ file_exists(all_items[i]) /\ ~force
    /\ out' = Append(out, <<"Skipping", all_items[i]>>)
    /\ skipped' = skipped + 1
    /\ i' = i + 1
    /\ UNCHANGED <<generated, errors>>
    /\ UNCHANGED <<dir, ga, ga_text, ga_force, ret, calls, inflight>>
    /\ UNCHANGED <<dir0, force, summary, run, prevClean, pc>>
    /\ UNCHANGED buildVars

\* variant: the request is started as a task and not awaited
MainCall_NoAwait ==
    /\ pc = "main"
    /\ ga = "idle"
    /\ i <= total_files
    /\ ~(file_exists(all_items[i]) /\ ~force)
    /\ calls' = Append(calls, all_items[i])
    /\ inflight' = inflight \cup {all_items[i]}
    /\ ga_text' = all_items[i]
    /\ ga_force' = force
    /\ out' = Append(out, <<"Generated", all_items[i]>>)
    /\ ret' = ReturnGenerated
    /\ generated' = generated + 1
    /\ i' = i + 1
    /\ UNCHANGED <<dir, ga, skipped, errors>>
    /\ UNCHANGED <<dir0, force, summary, run, prevClean, pc>>
    /\ UNCHANGED buildVars

\* loop body, else branch: generate_audio is called and runs until it
\* suspends in save() or returns at once
MainCall ==
    /\ pc = "main"
    /\ ga = "idle"
    /\ i <= total_files
    /\ ~(file_exists(all_items[i]) /\ ~force)
    /\ generate_audio(all_items[i], force)
    /\ IF ga' = "idle"
       THEN Tally(ret') /\ i' = i + 1
       ELSE UNCHANGED <<generated, skipped, errors, i>>
    /\ UNCHANGED <<dir0, force, summary, run, prevClean, pc>>
    /\ UNCHANGED buildVars

\* the awaited generate_audio returns True
MainSaveOk ==
    /\ pc = "main"
    /\ save_returns
    /\ Tally(ret')
    /\ i' = i + 1
    /\ UNCHANGED <<dir0, force, summary, run, prevClean, pc>>
    /\ UNCHANGED buildVars

\* variant: the exception is not caught and ends main()
MainSaveErr_Propagate ==
    /\ pc = "main"
    /\ ga = "awaiting"
    /\ dir' \in {dir, dir \cup {OutputPath(ga_text)}}
    /\ inflight' = inflight \ {ga_text}
    /\ ga' = "idle"
    /\ pc' = "crashed"
    /\ UNCHANGED <<ga_text, ga_force, ret, calls, out>>
    /\ UNCHANGED <<dir0, force, i, generated, skipped, errors, summary, run, prevClean>>
    /\ UNCHANGED buildVars

\* the awaited generate_audio returns False
MainSaveErr ==
    /\ pc = "main"
    /\ save_raises
    /\ Tally(ret')
    /\ i' = i + 1
    /\ UNCHANGED <<dir0, force, summary, run, prevClean, pc>>
    /\ UNCHANGED buildVars

\* after the loop: the summary block, with the count of *.mp3 on disk
Summary ==
    /\ pc = "main"
    /\ ga = "idle"
    /\ i > total_files
    /\ summary' = <<generated, skipped, errors, Cardinality(GlobMp3(dir))>>
    /\ pc' = "done"
    /\ UNCHANGED <<dir0, force, i, generated, skipped, errors, run, prevClean>>
    /\ UNCHANGED gaVars
    /\ UNCHANGED buildVars

\* the script is invoked again: the registry is rebuilt from the same
\* literals, the counters start at 0, the directory is what the last run left
Rerun ==
    /\ pc = "done"
    /\ run < MaxRuns
    /\ pc' = "main"
    /\ run' = run + 1
    /\ prevClean' = (errors = 0)
    /\ force' \in BOOLEAN
    /\ dir0' = dir
    /\ i' = 1
    /\ generated' = 0
    /\ skipped' = 0
    /\ errors' = 0
    /\ summary' = <<>>
    /\ ga' = "idle"
    /\ ga_text' = ""
    /\ ga_force' = FALSE
    /\ ret' = FALSE
    /\ calls' = <<>>
    /\ inflight' = {}
    /\ out' = <<>>
    /\ UNCHANGED dir
    /\ UNCHANGED buildVars

Init ==
    /\ pc = "main"
    /\ LoadedBuildVars
    /\ dir \in SUBSET AllFiles
    /\ InitGaVars
    /\ InitMainVars

Next ==
    \/ MainSkip
    \/ MainCall
    \/ MainSaveOk
    \/ MainSaveErr
    \/ Summary
    \/ Rerun

Spec == Init /\ [][Next]_vars

\* every call of the client returns or raises; the loop is never suspended
\* elsewhere
FairSpec ==
    /\ Spec
    /\ WF_vars(MainSkip)
    /\ WF_vars(MainCall)
    /\ WF_vars(MainSaveOk \/ MainSaveErr)
    /\ WF_vars(Summary)

\* ------------------------------------------- the merge, as the script runs it
InitReg ==
    /\ pc = "build"
    /\ InitBuildVars
    /\ dir = {}
    /\ InitGaVars
    /\ InitMainVars

NextReg ==
    \/ BuildAppend
    \/ BuildDuplicate
    \/ BuildNextList
    \/ BuildDone

SpecReg == InitReg /\ [][NextReg]_vars

\* --------------------------- generate_audio called directly by a caller that
\* tallies by the returned value as main() does
GenCall ==
    /\ pc = "caller"
    /\ \E text \in Range(all_items), f \in BOOLEAN : generate_audio(text, f)
    /\ IF ga' = "idle"
       THEN Tally(ret') /\ pc' = "returned"
       ELSE UNCHANGED <<generated, skipped, errors, pc>>
    /\ UNCHANGED <<dir0, force, i, summary, run, prevClean>>
    /\ UNCHANGED buildVars

GenSaveOk ==
    /\ pc = "caller"
    /\ save_returns
    /\ Tally(ret')
    /\ pc' = "returned"
    /\ UNCHANGED <<dir0, force, i, summary, run, prevClean>>
    /\ UNCHANGED buildVars

GenSaveErr ==
    /\ pc = "caller"
    /\ save_raises
    /\ Tally(ret')
    /\ pc' = "returned"
    /\ UNCHANGED <<dir0, force, i, summary, run, prevClean>>
    /\ UNCHANGED buildVars

InitGen ==
    /\ pc = "caller"
    /\ LoadedBuildVars
    /\ dir \in SUBSET AllFiles
    /\ InitGaVars
    /\ InitMainVars

NextGen == GenCall \/ GenSaveOk \/ GenSaveErr

SpecGen == InitGen /\ [][NextGen]_vars

TypeOK ==
    /\ i \in 1..(total_files + 1)
    /\ generated \in Nat /\ skipped \in Nat /\ errors \in Nat
    /\ dir \subseteq AllFiles
    /\ ret \in BOOLEAN

\* ------------------------------------------------------ derived quantities
\* the texts of the status lines printed so far, in order
Processed == [n \in 1..Len(out) |-> out[n][2]]

Lines(status) == {n \in 1..Len(out) : out[n][1] = status}

Distinct(s) == \A a, b \in 1..Len(s) : a # b => s[a] # s[b]

\* position of a text in the registry
IndexIn(s, t) == CHOOSE n \in 1..Len(s) : s[n] = t

AtLoopHead == pc = "main" /\ ga = "idle" /\ i <= total_files

NoError == Lines("Error") = {}

RegistryPaths == {OutputPath(t) : t \in Range(all_items)}

\* ------------------------------------------------------------------ claims

\* C1: an item is handed to the client exactly when force is set or its file
\* is absent when the loop reaches it; without force an item whose file was
\* there before the run is never handed over and is counted as skipped; with
\* force every item of the registry is handed over.
C1_PassedIffForceOrMissing ==
    /\ [][AtLoopHead =>
            /\ (calls' # calls) <=> (force \/ ~file_exists(all_items[i]))
            /\ (calls' # calls) => calls' = Append(calls, all_items[i])
            /\ (calls' = calls) => /\ skipped' = skipped + 1
                                   /\ out' = Append(out, <<"Skipping", all_items[i]>>)]_vars
    /\ [](pc = "done" =>
            /\ Range(calls) = {t \in Range(all_items) : force \/ OutputPath(t) \notin dir0}
            /\ ~force => /\ \A t \in Range(all_items) :
                               OutputPath(t) \in dir0 =>
                                   \E n \in Lines("Skipping") : out[n][2] = t
                         /\ skipped = Cardinality({t \in Range(all_items) : OutputPath(t) \in dir0})
            /\ force => calls = all_items)

C1_Witness ==
    /\ pc = "done"
    /\ ~force
    /\ skipped >= 1
    /\ Len(calls) >= 1
    /\ \E t \in Range(all_items) : OutputPath(t) \in dir0 /\ t \notin Range(calls)

\* C2: an error of the client is caught at the item it occurred for; the
\* item is not tried again, the later items are processed in order, and the
\* failed count of the summary is the number of items whose call failed.
C2_FailureIsolated ==
    /\ pc \in {"main", "done"}
    /\ errors = Cardinality(Lines("Error"))
    /\ Distinct(calls)
    /\ \A n \in 1..Len(out) : out[n][2] = all_items[n]
    /\ pc = "done" => /\ Processed = all_items
                      /\ summary[3] = Cardinality(Lines("Error"))

C2_Witness ==
    /\ pc = "done"
    /\ \E a, b \in 1..Len(out) : a < b /\ out[a][1] = "Error" /\ out[b][1] # "Error"
    /\ errors >= 1

\* C3: generated + skipped + errors is the number of items processed so far,
\* every item increments exactly one of the counters by one, and at the end
\* the sum is the size of the registry.
C3_CountersPartition ==
    /\ [](/\ generated + skipped + errors = Len(out)
          /\ pc = "main" => generated + skipped + errors = i - 1
          /\ pc = "done" => /\ generated + skipped + errors = total_files
                            /\ summary[1] + summary[2] + summary[3] = total_files)
    /\ [][pc = "main" /\ pc' = "main" =>
            \/ /\ i' = i
               /\ UNCHANGED <<generated, skipped, errors>>
            \/ /\ i' = i + 1
               /\ \/ generated' = generated + 1 /\ UNCHANGED <<skipped, errors>>
                  \/ skipped' = skipped + 1 /\ UNCHANGED <<generated, errors>>
                  \/ errors' = errors + 1 /\ UNCHANGED <<generated, skipped>>]_vars

C3_Witness ==
    /\ pc = "done"
    /\ generated >= 1
    /\ skipped >= 1
    /\ errors >= 1

\* the concatenation of the category lists, in the order of the merge
RECURSIVE Concatenation(_, _)
Concatenation(ls, l) ==
    IF l > Len(ls) THEN <<>> ELSE ls[l] \o Concatenation(ls, l + 1)

FirstOccurrence(s, t) == CHOOSE n \in 1..Len(s) : s[n] = t /\ \A m \in 1..(n - 1) : s[m] # t

\* C4: the registry holds every text of the category lists exactly once, in
\* the order of the first occurrences in the concatenation of the lists.
C4_RegistryFirstSeenOrder ==
    pc = "loaded" =>
        LET cat == Concatenation(item_lists, 1)
        IN /\ Range(all_items) = Range(cat)
           /\ Distinct(all_items)
           /\ \A a, b \in 1..Len(all_items) :
                  a < b => FirstOccurrence(cat, all_items[a]) < FirstOccurrence(cat, all_items[b])

C4_Witness ==
    /\ pc = "loaded"
    /\ Len(all_items) >= 2
    /\ \E l \in 2..Len(item_lists) :
           \E k \in 1..Len(item_lists[l]) :
               /\ item_lists[l][k] \in Range(item_lists[1])
               /\ all_items[1] = item_lists[l][k]

\* C5: from an empty directory, without force and with every call
\* succeeding, every item is counted as generated and the directory holds
\* exactly the files <item>.mp3 of the registry, as many as the registry has
\* items.
C5_FreshRunGeneratesAll ==
    (pc = "done" /\ dir0 = {} /\ ~force /\ NoError) =>
        /\ generated = total_files
        /\ skipped = 0
        /\ errors = 0
        /\ \A n \in 1..Len(out) : out[n][1] = "Generated"
        /\ dir = RegistryPaths
        /\ Cardinality(dir) = total_files
        /\ summary = <<total_files, 0, 0, total_files>>

C5_Witness ==
    /\ pc = "done"
    /\ dir0 = {}
    /\ ~force
    /\ NoError
    /\ total_files >= 2
    /\ generated = total_files

\* C6: a run without force right after a run in which nothing failed skips
\* every item, calls the client never and leaves the directory as it was.
C6_RerunIsNoOp ==
    (run >= 2 /\ prevClean /\ ~force) =>
        /\ calls = <<>>
        /\ inflight = {}
        /\ dir = dir0
        /\ pc = "done" => /\ skipped = total_files
                          /\ generated = 0
                          /\ errors = 0
                          /\ summary[4] = Cardinality(GlobMp3(dir0))

C6_Witness ==
    /\ pc = "done"
    /\ run = 2
    /\ prevClean
    /\ ~force
    /\ total_files >= 2
    /\ skipped = total_files

\* C7: a run adds only files <item>.mp3 of registry items and removes none,
\* whatever fails; with force, over a directory that holds every item's file
\* and with every call succeeding, every item is counted as generated and the
\* number of files is unchanged.
C7_DirectoryOnlyGrows ==
    /\ [][/\ dir \subseteq dir'
          /\ (dir' \ dir) \subseteq RegistryPaths]_vars
    /\ [](dir0 \subseteq dir)
    /\ []((pc = "done" /\ force /\ RegistryPaths \subseteq dir0 /\ NoError) =>
            /\ generated = total_files
            /\ \A n \in 1..Len(out) : out[n][1] = "Regenerated"
            /\ dir = dir0
            /\ summary[4] = Cardinality(GlobMp3(dir0)))

C7_Witness ==
    /\ pc = "done"
    /\ force
    /\ RegistryPaths \subseteq dir0
    /\ NoError
    /\ total_files >= 2
    /\ generated = total_files

\* C8: if every call of the client returns or raises, every run reaches the
\* summary, whatever fails, and only after every item of the registry has
\* been processed once.
C8_RunReachesSummary ==
    /\ (pc = "main") ~> (pc = "done")
    /\ [](pc \in {"main", "done"})
    /\ [](summary # <<>> => (pc = "done" /\ Processed = all_items /\ i = total_files + 1))
    /\ [](pc = "done" => summary # <<>>)

C8_Witness ==
    /\ pc = "done"
    /\ summary # <<>>
    /\ errors >= 2

\* C9: at most one request of the client is in flight; a request starts only
\* when every earlier one has completed, and the requests follow the order of
\* the registry.
C9_OneRequestAtATime ==
    /\ [](/\ Cardinality(inflight) <= 1
          /\ Distinct(calls)
          /\ Range(calls) \subseteq Range(all_items)
          /\ \A a, b \in 1..Len(calls) :
                 a < b => IndexIn(all_items, calls[a]) < IndexIn(all_items, calls[b])
          /\ ga = "awaiting" => /\ inflight = {all_items[i]}
                                /\ calls[Len(calls)] = all_items[i]
                                /\ Len(out) = i - 1
          /\ ga = "idle" => inflight = {})
    /\ [][(pc = "main" /\ calls' # calls) =>
            (inflight = {} /\ calls' = Append(calls, all_items[i]))]_vars

C9_Witness ==
    /\ ga = "awaiting"
    /\ Len(calls) >= 2
    /\ Cardinality(inflight) = 1

\* C10: generate_audio, called without force for a text whose file exists,
\* calls the client not at all and returns an outcome that differs from the
\* one it returns after a successful synthesis, so that a caller that tallies
\* by the returned value does not count the item as generated.
C10_SkippedOutcomeDistinct ==
    (pc = "returned" /\ Lines("Skipping") # {}) =>
        /\ calls = <<>>
        /\ ret # ReturnGenerated
        /\ generated = 0
====
